---- MODULE Spec2Model ----
(***************************************************************************)
(* Model of the lalos-mapp post service: the POST/GET/PATCH /api/posts     *)
(* handlers over the MongoDB "posts" collection, in the deployments the    *)
(* repository holds:                                                       *)
(*   "plugin" : src/src/server.js lines 1-102 registering                  *)
(*              src/src/routes/posts.js (no body schema, idemKey index)    *)
(*   "mono"   : src/src/server.js lines 104-513 (schema-validated bodies,  *)
(*              no idemKey index, the upload sweeper)                      *)
(*   "part"   : src/unnamed/part_000, whose create, get and update         *)
(*              handlers are the code of "mono"; its upload, history and   *)
(*              list routes differ, and it has no sweeper                  *)
(* A handler runs to its await (the store operation) without interleaving; *)
(* the store operation completes later, atomically, in its own step.       *)
(***************************************************************************)
EXTENDS Integers, Sequences, FiniteSets, TLC

\* ------------------------------------------------------------------ bounds
MaxPosts == 2
MaxClock == 1
NumSlots == 2
MaxUpdates == 2

\* ------------------------------------------------- JavaScript values
\* A JS value is a tagged tuple; strings are sequences of characters.
Undef == <<"undefined">>
Null == <<"null">>
NaN == <<"NaN">>
Num(n) == <<"number", n>>
Str(s) == <<"string", s>>
Obj(a, b) == <<"object", a, b>>
Tag(v) == v[1]

Truthy(v) ==
  CASE Tag(v) = "undefined" -> FALSE
    [] Tag(v) = "null" -> FALSE
    [] Tag(v) = "NaN" -> FALSE
    [] Tag(v) = "number" -> v[2] # 0
    [] Tag(v) = "string" -> v[2] # <<>>
    [] OTHER -> TRUE

\* a || b
OrElse(a, b) == IF Truthy(a) THEN a ELSE b

\* a ?? b
Coalesce(a, b) == IF a = Undef \/ a = Null THEN b ELSE a

Digits == {"0", "1", "2", "3", "4", "5", "6", "7", "8", "9"}

DigitVal(c) ==
  CASE c = "0" -> 0 [] c = "1" -> 1 [] c = "2" -> 2 [] c = "3" -> 3
    [] c = "4" -> 4 [] c = "5" -> 5 [] c = "6" -> 6 [] c = "7" -> 7
    [] c = "8" -> 8 [] c = "9" -> 9 [] c = "a" -> 10 [] c = "b" -> 11
    [] c = "c" -> 12 [] c = "d" -> 13 [] c = "e" -> 14 [] c = "f" -> 15

RECURSIVE ParseRadix(_, _)
ParseRadix(s, radix) ==
  IF s = <<>> THEN 0
  ELSE ParseRadix(SubSeq(s, 1, Len(s) - 1), radix) * radix + DigitVal(s[Len(s)])

\* Number(v): the empty string is 0, a string of digits its value (negated
\* after a leading minus sign), null is 0
NumberOf(v) ==
  CASE Tag(v) = "number" -> v
    [] Tag(v) = "null" -> Num(0)
    [] Tag(v) = "string" ->
         IF \A i \in 1..Len(v[2]) : v[2][i] \in Digits
         THEN Num(ParseRadix(v[2], 10))
         ELSE IF /\ Len(v[2]) > 1 /\ v[2][1] = "-"
                 /\ \A i \in 2..Len(v[2]) : v[2][i] \in Digits
         THEN Num(0 - ParseRadix(Tail(v[2]), 10))
         ELSE NaN
    [] OTHER -> NaN

\* Number.isFinite(v): a number that is not NaN (no coercion)
IsFinite(v) == Tag(v) = "number"

\* Math.round on the integers the model draws numbers from
Round(v) == v

cleanNum(n) == LET x == NumberOf(n) IN IF IsFinite(x) THEN x ELSE Null

LowerChar(c) ==
  CASE c = "I" -> "i" [] c = "M" -> "m" [] c = "G" -> "g"
    [] c = "Y" -> "y" [] c = "T" -> "t" [] c = "J" -> "j"
    [] c = "P" -> "p" [] OTHER -> c

\* String.prototype.toLowerCase
toLowerCase(v) == Str([i \in 1..Len(v[2]) |-> LowerChar(v[2][i])])

RECURSIVE TrimLeft(_)
TrimLeft(s) == IF s # <<>> /\ s[1] = " " THEN TrimLeft(Tail(s)) ELSE s

RECURSIVE TrimRight(_)
TrimRight(s) ==
  IF s # <<>> /\ s[Len(s)] = " " THEN TrimRight(SubSeq(s, 1, Len(s) - 1)) ELSE s

\* String.prototype.trim
Trim(s) == TrimRight(TrimLeft(s))

\* String.prototype.slice(0, n)
Slice(s, n) == SubSeq(s, 1, IF Len(s) < n THEN Len(s) ELSE n)

MAX_CMT == 15
MAX_DEV == 128

\* routes/posts.js: typeof c === 'string' ? c.trim().slice(0, 15) : null
trimComment(c) == IF Tag(c) = "string" THEN Str(Slice(Trim(c[2]), MAX_CMT)) ELSE Null

\* server.js clampComment / part_000 capComment: (v ?? '').slice(0, 15).trim() || null
clampComment(c) ==
  OrElse(Str(Trim(Slice(Coalesce(c, Str(<<>>))[2], MAX_CMT))), Null)

\* ------------------------------------------------------------ ObjectId
OID_HEX_LEN == 24
HexChars == Digits \cup {"a", "b", "c", "d", "e", "f"}
NoOid == -1

\* ObjectId.isValid(id) / new ObjectId(String(id)) not throwing, for a string
\* of lower-case characters whose length is not 12 (the driver also reads a
\* string of 12 bytes as an id; IdParams holds none)
ObjectIdIsValid(s) == Len(s) = OID_HEX_LEN /\ \A i \in 1..Len(s) : s[i] \in HexChars

\* String(insertedId): the 24 hex characters of the ObjectId numbered n
OidHex(n) ==
  [i \in 1..OID_HEX_LEN |->
     IF i = OID_HEX_LEN THEN CHOOSE c \in HexChars : DigitVal(c) = n ELSE "0"]

\* a parseId that checks the length of the id only: an id of 24 characters
\* that are not all hex parses to an ObjectId no post has
parseId_LengthOnly(id) ==
  IF Len(id) # OID_HEX_LEN THEN NoOid
  ELSE IF ObjectIdIsValid(id) THEN ParseRadix(id, 16) ELSE 0

\* routes/posts.js parseId: try { new ObjectId(String(id)) } catch { null }
parseId(id) == IF ObjectIdIsValid(id) THEN ParseRadix(id, 16) ELSE NoOid

\* ------------------------------------------------------------ inputs
IMG == Str(<<"i", "m", "g">>)
GIF == Str(<<"g", "i", "f">>)
VID == Str(<<"v", "i", "d">>)
YT == Str(<<"y", "t">>)
IMG_UPPER == Str(<<"I", "M", "G">>)
PDF == Str(<<"p", "d", "f">>)
U1 == Str(<<"u", "1">>)
U2 == Str(<<"u", "2">>)
Y1 == Str(<<"y", "1">>)
Y2 == Str(<<"y", "2">>)
K1 == Str(<<"k", "1">>)
D1 == Str(<<"d", "1">>)
D2 == Str(<<"d", "2">>)
HI == Str(<<"h", "i">>)
HI_PADDED == Str(<<" ", "h", "i", " ">>)
LONG16 == Str([i \in 1..(MAX_CMT + 1) |-> "x"])
EMPTY == Str(<<>>)

MediaEnum == {IMG, GIF, VID, YT}

\* ----------------------------------------- Fastify/Ajv body validation
Invalid == <<"invalid">>

\* Ajv coerceTypes to "number" (Fastify's default validator compiler):
\* a number stays, null becomes 0, a non-empty numeric string its value
CoerceNumber(v) ==
  CASE Tag(v) = "number" -> v
    [] Tag(v) = "null" -> Num(0)
    [] Tag(v) = "string" ->
         IF v[2] # <<>> /\ IsFinite(NumberOf(v)) THEN NumberOf(v) ELSE Invalid
    [] OTHER -> Invalid

\* type: ['string', 'null']; an absent key passes
StringOrNull(v) == Tag(v) \in {"undefined", "null", "string"}

\* maxLength: n (applies to strings only)
MaxLength(v, n) == Tag(v) = "string" => Len(v[2]) <= n

\* type: ['number', 'null']
NumberOrNull(v) == Tag(v) \in {"undefined", "null", "number"}

\* type: ['object', 'null'] with two number properties
PairOrNull(v) ==
  \/ Tag(v) \in {"undefined", "null"}
  \/ Tag(v) = "object" /\ Tag(v[2]) \in {"undefined", "number"}
                       /\ Tag(v[3]) \in {"undefined", "number"}

\* postBodySchema of server.js / part_000: whether the body validates (else 400)
postBodyValid(b) ==
  ~(\/ b.lng = Undef \/ b.lat = Undef \/ b.mediaType = Undef
     \/ CoerceNumber(b.lng) = Invalid \/ CoerceNumber(b.lat) = Invalid
     \/ b.mediaType \notin MediaEnum
     \/ ~StringOrNull(b.url) \/ ~StringOrNull(b.ytId)
     \/ ~StringOrNull(b.comment) \/ ~MaxLength(b.comment, MAX_CMT)
     \/ ~PairOrNull(b.natSize) \/ ~NumberOrNull(b.pxAtPlace)
     \/ ~PairOrNull(b.userCenter)
     \/ ~StringOrNull(b.deviceId) \/ ~MaxLength(b.deviceId, MAX_DEV))

\* the body the handler receives: numbers coerced, and idemKey removed
\* (additionalProperties: false with Fastify's removeAdditional)
postBodySchema(b) ==
  [b EXCEPT !.lng = CoerceNumber(b.lng), !.lat = CoerceNumber(b.lat),
            !.idemKey = Undef]

\* a destructuring default: x = null applies to an absent key only
Default(v, d) == IF v = Undef THEN d ELSE v

\* a clock read that always returns the epoch
Date_Epoch(t) == <<"date", 0>>

\* new Date() at clock value t
Date(t) == <<"date", t>>

\* GeoJSON coordinates written latitude first
Point_LatLng(lng, lat) == <<lat, lng>>

\* { type: 'Point', coordinates: [lng, lat] }
Point(lng, lat) == <<lng, lat>>

\* ------------------------------------------- POST /api/posts, plugin
NoError == "none"

routesCreateError(b) ==
  LET lng == cleanNum(b.lng)
      lat == cleanNum(b.lat)
      mediaType == toLowerCase(OrElse(b.mediaType, IMG))
      url == OrElse(b.url, Null)
  IN  IF ~IsFinite(lng) \/ ~IsFinite(lat) THEN "lng/lat required"
      ELSE IF mediaType \notin MediaEnum THEN "invalid mediaType"
      ELSE IF mediaType # YT /\ ~Truthy(url) THEN "url required for non-YouTube media"
      ELSE NoError

routesCreateDoc(b, t) ==
  LET mediaType == toLowerCase(OrElse(b.mediaType, IMG))
      url == OrElse(b.url, Null)
      ytId == OrElse(b.ytId, Null)
      pxAtPlace == cleanNum(b.pxAtPlace)
      ns == b.natSize
      uc == b.userCenter
  IN  [mediaType |-> mediaType,
       url |-> IF mediaType = YT THEN Null ELSE url,
       ytId |-> IF mediaType = YT THEN OrElse(ytId, Null) ELSE Null,
       comment |-> trimComment(b.comment),
       natSize |-> IF Truthy(ns) /\ IsFinite(ns[2]) /\ IsFinite(ns[3])
                   THEN Obj(Round(ns[2]), Round(ns[3])) ELSE Null,
       pxAtPlace |-> IF IsFinite(pxAtPlace) THEN pxAtPlace ELSE Null,
       userCenter |-> IF Truthy(uc) /\ IsFinite(uc[2]) /\ IsFinite(uc[3])
                      THEN Obj(NumberOf(uc[2]), NumberOf(uc[3])) ELSE Null,
       deviceId |-> OrElse(OrElse(b.deviceId, Null), Null),
       location |-> Point(cleanNum(b.lng), cleanNum(b.lat)),
       createdAt |-> Date(t),
       updatedAt |-> Date(t),
       idemKey |-> IF Tag(b.idemKey) = "string" THEN b.idemKey ELSE Null]

\* ------------------------------------- POST /api/posts, mono and part
\* b is the schema-coerced body, h the x-device-id header
serverCreateError(b) ==
  LET url == Default(b.url, Null)
      ytId == Default(b.ytId, Null)
  IN  IF b.mediaType = YT /\ ~Truthy(ytId) THEN "ytId required for mediaType=yt"
      ELSE IF b.mediaType # YT /\ ~Truthy(url) THEN "url required for img/gif/vid"
      ELSE NoError

serverCreateDoc(b, h, t) ==
  LET ns == Default(b.natSize, Null)
      px == Default(b.pxAtPlace, Null)
      dev == OrElse(OrElse(Default(b.deviceId, Null), h), EMPTY)
  IN  [mediaType |-> b.mediaType,
       url |-> Default(b.url, Null),
       ytId |-> Default(b.ytId, Null),
       comment |-> clampComment(Default(b.comment, Null)),
       natSize |-> IF Truthy(ns) /\ Truthy(ns[2]) /\ Truthy(ns[3])
                   THEN Obj(ns[2], ns[3]) ELSE Null,
       pxAtPlace |-> IF Tag(px) = "number" THEN px ELSE Null,
       userCenter |-> OrElse(Default(b.userCenter, Null), Null),
       deviceId |-> OrElse(Str(Slice(dev[2], MAX_DEV)), Null),
       location |-> Point(b.lng, b.lat),
       createdAt |-> Date(t),
       updatedAt |-> Date(t),
       idemKey |-> Undef]

\* ------------------------------------------------ PATCH /api/posts/:id
\* routes/posts.js: the $set document; Undef marks a key that is not set
routesPatchSet(p, t) ==
  [updatedAt |-> Date(t),
   comment |-> IF p.comment # Undef THEN trimComment(p.comment) ELSE Undef,
   pxAtPlace |-> IF p.pxAtPlace # Undef /\ IsFinite(NumberOf(p.pxAtPlace))
                 THEN Round(NumberOf(p.pxAtPlace)) ELSE Undef,
   url |-> IF p.url # Undef THEN OrElse(p.url, Null) ELSE Undef,
   ytId |-> Undef,
   userCenter |-> Undef,
   mediaType |-> IF p.mediaType # Undef
                 THEN toLowerCase(OrElse(p.mediaType, IMG)) ELSE Undef,
   natSize |-> IF Truthy(p.natSize) /\ IsFinite(p.natSize[2]) /\ IsFinite(p.natSize[3])
               THEN Obj(Round(p.natSize[2]), Round(p.natSize[3])) ELSE Undef]

\* the PATCH body schema of server.js / part_000: whether the body validates
patchBodyValid(p) ==
  ~(\/ ~StringOrNull(p.comment) \/ ~MaxLength(p.comment, MAX_CMT)
    \/ ~NumberOrNull(p.pxAtPlace)
    \/ ~StringOrNull(p.url) \/ ~StringOrNull(p.ytId)
    \/ ~PairOrNull(p.userCenter))

\* the body the handler receives: the keys the schema does not list removed
\* (additionalProperties: false with Fastify's removeAdditional)
patchBodySchema(p) == [p EXCEPT !.natSize = Undef, !.mediaType = Undef]

\* server.js / part_000: the $set document
serverPatchSet(p, t) ==
  [updatedAt |-> Date(t),
   comment |-> IF p.comment # Undef THEN clampComment(p.comment) ELSE Undef,
   pxAtPlace |-> IF p.pxAtPlace # Undef
                 THEN (IF Tag(p.pxAtPlace) = "number" THEN p.pxAtPlace ELSE Null)
                 ELSE Undef,
   url |-> IF p.url # Undef THEN OrElse(p.url, Null) ELSE Undef,
   ytId |-> IF p.ytId # Undef THEN OrElse(p.ytId, Null) ELSE Undef,
   userCenter |-> IF p.userCenter # Undef THEN OrElse(p.userCenter, Null) ELSE Undef,
   mediaType |-> Undef,
   natSize |-> Undef]

\* MongoDB $set: the keys of the $set document replace the stored ones
ApplySet(doc, set) ==
  [f \in DOMAIN doc |->
     IF f \in DOMAIN set /\ set[f] # Undef THEN set[f] ELSE doc[f]]

\* ------------------------------------------------------- response DTOs
toISOString(d) == <<"isostring", d[2]>>

\* toDTO of routes/posts.js (and of server.js lines 60-77)
toDTO(n, doc) ==
  [id |-> Str(OidHex(n)),
   mediaType |-> OrElse(doc.mediaType, IMG),
   url |-> OrElse(doc.url, Null),
   ytId |-> OrElse(doc.ytId, Null),
   comment |-> Coalesce(doc.comment, Null),
   natSize |-> OrElse(doc.natSize, Null),
   pxAtPlace |-> IF Tag(doc.pxAtPlace) = "number" THEN doc.pxAtPlace ELSE Null,
   userCenter |-> OrElse(doc.userCenter, Null),
   deviceId |-> Undef,
   coordinates |-> doc.location,
   createdAt |-> toISOString(doc.createdAt),
   updatedAt |-> toISOString(doc.updatedAt)]

\* toPub of part_000; the inline object of server.js GET /api/posts/:id
toPub(n, doc) ==
  [id |-> Str(OidHex(n)),
   mediaType |-> doc.mediaType,
   url |-> doc.url,
   ytId |-> doc.ytId,
   comment |-> doc.comment,
   natSize |-> doc.natSize,
   pxAtPlace |-> doc.pxAtPlace,
   userCenter |-> doc.userCenter,
   deviceId |-> OrElse(doc.deviceId, Null),
   coordinates |-> doc.location,
   createdAt |-> doc.createdAt,
   updatedAt |-> Undef]

NoBody == <<>>

\* ------------------------------------------------------ request inputs
BaseBody ==
  [lng |-> Num(10), lat |-> Num(20), mediaType |-> IMG, url |-> U1,
   ytId |-> Undef, comment |-> Undef, natSize |-> Undef, pxAtPlace |-> Undef,
   userCenter |-> Undef, deviceId |-> Undef, idemKey |-> Undef]

CoordInputs ==
  {<<Num(200), Num(20)>>, <<Num(10), Num(0 - 95)>>, <<Null, Null>>,
   <<Undef, Num(20)>>, <<PDF, Num(20)>>}

\* <<mediaType, url, ytId>>
MediaInputs ==
  {<<IMG, Undef, Undef>>, <<GIF, Null, Y1>>, <<VID, EMPTY, Undef>>,
   <<YT, Undef, Y1>>, <<YT, Undef, Undef>>, <<YT, U1, Y1>>,
   <<IMG_UPPER, U1, Undef>>, <<PDF, U1, Undef>>}

FullBody ==
  [BaseBody EXCEPT !.comment = HI_PADDED, !.natSize = Obj(Num(4), Num(3)),
                   !.pxAtPlace = Num(5), !.userCenter = Obj(Num(1), Num(2)),
                   !.deviceId = D1]

KeyBody == [BaseBody EXCEPT !.idemKey = K1]

YtBody == [BaseBody EXCEPT !.mediaType = YT, !.url = U1, !.ytId = Y1]

\* a create request: the JSON body and the x-device-id header
Request(b, h) == [body |-> b, xDeviceId |-> h]

CreateRequests ==
  {Request([BaseBody EXCEPT !.lng = c[1], !.lat = c[2]], Undef) : c \in CoordInputs}
  \cup {Request([BaseBody EXCEPT !.mediaType = m[1], !.url = m[2], !.ytId = m[3]], Undef) :
          m \in MediaInputs}
  \cup {Request(BaseBody, Undef), Request(KeyBody, Undef), Request(FullBody, Undef),
        Request(BaseBody, D2)}

\* the create requests of the update scenarios
FewCreateRequests == {Request(FullBody, Undef), Request(YtBody, Undef)}

EmptyPatch ==
  [comment |-> Undef, pxAtPlace |-> Undef, url |-> Undef, ytId |-> Undef,
   userCenter |-> Undef, natSize |-> Undef, mediaType |-> Undef]

UpdatableFields == {"comment", "pxAtPlace", "url", "ytId", "userCenter", "natSize"}

PatchBodies ==
  {EmptyPatch}
  \cup {[EmptyPatch EXCEPT ![f] = Null] : f \in UpdatableFields}
  \cup {[EmptyPatch EXCEPT !.comment = HI], [EmptyPatch EXCEPT !.mediaType = YT]}

\* a well-formed id that no post gets
MissingId == OidHex(15)
NotHex == [i \in 1..OID_HEX_LEN |-> IF i = 1 THEN "g" ELSE "0"]
TooShort == <<"1">>

\* the :id path parameter of a GET
IdParams ==
  {OidHex(n) : n \in 1..MaxPosts} \cup {MissingId, NotHex, TooShort}

\* the :id path parameter of a PATCH: the first ObjectId, or a malformed one
PatchIdParams == {OidHex(1), NotHex}

\* --------------------------------------------------------------- state
VARIABLES
  variant,    \* which program runs: "plugin" (server.js 1-102 with routes/),
              \* "mono" (server.js 104-513) or "part" (part_000)
  posts,      \* the posts collection: ObjectId number -> document
  clock,      \* Date.now()
  req,        \* per request slot: the store operation the handler awaits
  last,       \* the response sent last
  nUpdates,   \* update requests that reached the store so far
  submitted,  \* history: ObjectId number -> the request body that created it
  tz,         \* the server's time zone: local time minus clock
  files,      \* the upload directory: file name -> content
  sweep,      \* cleanupUploads: idle, or awaiting readdir with its cutoff
  swept,      \* history: what the last completed cleanupUploads saw and did
  qry         \* the list query answered last: effective parameters and rows

\* the upload directory, the sweeper and the list queries
mediaVars == <<tz, files, sweep, swept, qry>>

vars == <<variant, posts, clock, req, last, nUpdates, submitted, mediaVars>>

\* the programs that create, get and update posts alike: the two in Variants;
\* part_000 has the handlers of "mono" for these
Variants == {"plugin", "mono"}
AllVariants == Variants \cup {"part"}
SchemaVariants == AllVariants \ {"plugin"}

\* a time zone: local time is clock + before up to the instant shiftAt, and
\* clock + after from then on (a daylight-saving shift when they differ)
Zone(before, after, shiftAt) == [before |-> before, after |-> after, shiftAt |-> shiftAt]
NoQuery == [op |-> "none"]
NoSweep == [pc |-> "idle"]
Slots == 1..NumSlots
Idle == [op |-> "idle"]

Reply(op, status, error, param, oid, body) ==
  [op |-> op, status |-> status, error |-> error, param |-> param,
   oid |-> oid, body |-> body]

Init ==
  /\ variant \in Variants
  /\ posts = <<>>
  /\ clock = 0
  /\ req = [s \in Slots |-> Idle]
  /\ last = Reply("none", 0, NoError, NoBody, NoOid, NoBody)
  /\ nUpdates = 0
  /\ submitted = <<>>
  /\ tz = Zone(0, 0, 0)
  /\ files = <<>>
  /\ sweep = NoSweep
  /\ swept = NoSweep
  /\ qry = NoQuery

\* the lowest idle request slot
FreeSlot(s) == req[s] = Idle /\ \A r \in 1..(s - 1) : req[r] # Idle

Pending(op) == {s \in Slots : req[s].op = op}

\* time passes
Tick ==
  /\ clock < MaxClock
  /\ clock' = clock + 1
  /\ UNCHANGED <<mediaVars, variant, posts, req, last, nUpdates, submitted>>

\* --------------------------------------------------- the posts collection
LNG_MAX == 180
LAT_MAX == 90

\* the 2dsphere index on location: a GeoJSON point outside the longitude and
\* latitude bounds cannot be indexed, and the write fails
GeoIndexable(loc) ==
  /\ 0 - LNG_MAX <= loc[1][2] /\ loc[1][2] <= LNG_MAX
  /\ 0 - LAT_MAX <= loc[2][2] /\ loc[2][2] <= LAT_MAX

\* the unique index on idemKey, partial on { idemKey: { $type: 'string' } },
\* which only the plugin deployment creates
IdemKeyTaken(doc) ==
  /\ variant = "plugin"
  /\ Tag(doc.idemKey) = "string"
  /\ \E n \in DOMAIN posts : posts[n].idemKey = doc.idemKey

\* insertOne(doc): the error code the store raises, or NoError
InsertError(doc) ==
  IF ~GeoIndexable(doc.location) THEN "16755"
  ELSE IF IdemKeyTaken(doc) THEN "11000"
  ELSE NoError

NextOid == Len(posts) + 1

\* ------------------------------------------------------- POST /api/posts
CanCreate == Len(posts) + Cardinality(Pending("insertOne")) < MaxPosts

\* routes/posts.js, up to await Posts.insertOne(doc)
RoutesCreate(q) ==
  /\ variant = "plugin"
  /\ IF routesCreateError(q.body) # NoError
     THEN /\ last' = Reply("create", 400, routesCreateError(q.body), NoBody, NoOid, NoBody)
          /\ UNCHANGED req
     ELSE /\ CanCreate
          /\ \E s \in Slots :
               /\ FreeSlot(s)
               /\ req' = [req EXCEPT ![s] =
                    [op |-> "insertOne", doc |-> routesCreateDoc(q.body, clock),
                     input |-> q.body]]
          /\ UNCHANGED last
  /\ UNCHANGED <<mediaVars, variant, posts, clock, nUpdates, submitted>>

\* routes/posts.js, from the completion of insertOne: 201, or the catch block
RoutesCreateDone(s) ==
  /\ variant = "plugin"
  /\ req[s].op = "insertOne"
  /\ LET doc == req[s].doc
         e == InsertError(doc)
     IN  IF e = NoError
         THEN /\ posts' = Append(posts, doc)
              /\ submitted' = Append(submitted, req[s].input)
              /\ last' = Reply("create", 201, NoError, NoBody, NextOid,
                               [ok |-> TRUE, id |-> Str(OidHex(NextOid)),
                                createdAt |-> toISOString(doc.createdAt)])
         ELSE /\ UNCHANGED <<posts, submitted>>
              /\ last' = IF e = "11000"
                         THEN Reply("create", 500, "Internal Server Error", NoBody, NoOid,
                                    [statusCode |-> 500, code |-> "11000"])
                         ELSE Reply("create", 500, "server", NoBody, NoOid, [ok |-> FALSE])
  /\ req' = [req EXCEPT ![s] = Idle]
  /\ UNCHANGED <<mediaVars, variant, clock, nUpdates>>

\* server.js / part_000, up to await posts.insertOne(doc)
ServerCreate(q) ==
  /\ variant \in SchemaVariants
  /\ LET c == postBodySchema(q.body)
     IN  IF ~postBodyValid(q.body)
         THEN /\ last' = Reply("create", 400, "Bad Request", NoBody, NoOid, NoBody)
              /\ UNCHANGED req
         ELSE IF serverCreateError(c) # NoError
         THEN /\ last' = Reply("create", 400, serverCreateError(c), NoBody, NoOid, NoBody)
              /\ UNCHANGED req
         ELSE /\ CanCreate
              /\ \E s \in Slots :
                   /\ FreeSlot(s)
                   /\ req' = [req EXCEPT ![s] =
                        [op |-> "insertOne", doc |-> serverCreateDoc(c, q.xDeviceId, clock),
                         input |-> q.body]]
              /\ UNCHANGED last
  /\ UNCHANGED <<mediaVars, variant, posts, clock, nUpdates, submitted>>

\* server.js / part_000, from the completion of insertOne: 201, or the
\* rejection reaches Fastify's error handler (500)
ServerCreateDone(s) ==
  /\ variant \in SchemaVariants
  /\ req[s].op = "insertOne"
  /\ LET doc == req[s].doc
         e == InsertError(doc)
     IN  IF e = NoError
         THEN /\ posts' = Append(posts, doc)
              /\ submitted' = Append(submitted, req[s].input)
              /\ last' = Reply("create", 201, NoError, NoBody, NextOid,
                               [ok |-> TRUE, id |-> Str(OidHex(NextOid)),
                                createdAt |-> doc.createdAt])
         ELSE /\ UNCHANGED <<posts, submitted>>
              /\ last' = Reply("create", 500, "Internal Server Error", NoBody, NoOid,
                               [statusCode |-> 500, code |-> e])
  /\ req' = [req EXCEPT ![s] = Idle]
  /\ UNCHANGED <<mediaVars, variant, clock, nUpdates>>

\* -------------------------------------------------- GET /api/posts/:id
\* routes/posts.js
RoutesGet(id) ==
  /\ variant = "plugin"
  /\ LET oid == parseId(id)
     IN  last' = IF oid = NoOid THEN Reply("get", 400, "bad id", id, NoOid, NoBody)
                 ELSE IF oid \notin DOMAIN posts
                 THEN Reply("get", 404, "not found", id, oid, NoBody)
                 ELSE Reply("get", 200, NoError, id, oid, toDTO(oid, posts[oid]))
  /\ UNCHANGED <<mediaVars, variant, posts, clock, req, nUpdates, submitted>>

\* server.js / part_000
ServerGet(id) ==
  /\ variant \in SchemaVariants
  /\ last' = IF ~ObjectIdIsValid(id) THEN Reply("get", 400, "invalid id", id, NoOid, NoBody)
             ELSE IF ParseRadix(id, 16) \notin DOMAIN posts
             THEN Reply("get", 404, "not found", id, ParseRadix(id, 16), NoBody)
             ELSE Reply("get", 200, NoError, id, ParseRadix(id, 16),
                        toPub(ParseRadix(id, 16), posts[ParseRadix(id, 16)]))
  /\ UNCHANGED <<mediaVars, variant, posts, clock, req, nUpdates, submitted>>

\* ------------------------------------------------ PATCH /api/posts/:id
CanUpdate == nUpdates < MaxUpdates

\* routes/posts.js, up to await Posts.findOneAndUpdate
RoutesPatch(id, p) ==
  /\ variant = "plugin"
  /\ IF parseId(id) = NoOid
     THEN /\ last' = Reply("patch", 400, "bad id", id, NoOid, NoBody)
          /\ UNCHANGED <<req, nUpdates>>
     ELSE /\ CanUpdate
          /\ nUpdates' = nUpdates + 1
          /\ \E s \in Slots :
               /\ FreeSlot(s)
               /\ req' = [req EXCEPT ![s] =
                    [op |-> "findOneAndUpdate", oid |-> parseId(id),
                     set |-> routesPatchSet(p, clock), input |-> p, param |-> id]]
          /\ UNCHANGED last
  /\ UNCHANGED <<mediaVars, variant, posts, clock, submitted>>

\* routes/posts.js, from the completion of findOneAndUpdate
RoutesPatchDone(s) ==
  /\ variant = "plugin"
  /\ req[s].op = "findOneAndUpdate"
  /\ LET oid == req[s].oid
     IN  IF oid \in DOMAIN posts
         THEN /\ posts' = [posts EXCEPT ![oid] = ApplySet(posts[oid], req[s].set)]
              /\ last' = Reply("patch", 200, NoError, req[s].param, oid,
                               toDTO(oid, ApplySet(posts[oid], req[s].set)))
         ELSE /\ UNCHANGED posts
              /\ last' = Reply("patch", 404, "not found", req[s].param, oid, NoBody)
  /\ req' = [req EXCEPT ![s] = Idle]
  /\ UNCHANGED <<mediaVars, variant, clock, nUpdates, submitted>>

\* server.js / part_000, up to await posts.findOneAndUpdate.  The PATCH route
\* validates the body; the POST /api/posts/:id/update alias has no schema.
ServerPatch(id, p, alias) ==
  /\ variant \in SchemaVariants
  /\ LET c == IF alias THEN p ELSE patchBodySchema(p)
     IN  IF ~alias /\ ~patchBodyValid(p)
         THEN /\ last' = Reply("patch", 400, "Bad Request", id, NoOid, NoBody)
              /\ UNCHANGED <<req, nUpdates>>
         ELSE IF ~ObjectIdIsValid(id)
         THEN /\ last' = Reply("patch", 400, "invalid id", id, NoOid, NoBody)
              /\ UNCHANGED <<req, nUpdates>>
         ELSE /\ CanUpdate
              /\ nUpdates' = nUpdates + 1
              /\ \E s \in Slots :
                   /\ FreeSlot(s)
                   /\ req' = [req EXCEPT ![s] =
                        [op |-> "findOneAndUpdate", oid |-> ParseRadix(id, 16),
                         set |-> serverPatchSet(c, clock), input |-> p, param |-> id]]
              /\ UNCHANGED last
  /\ UNCHANGED <<mediaVars, variant, posts, clock, submitted>>

\* server.js / part_000, from the completion of findOneAndUpdate
ServerPatchDone(s) ==
  /\ variant \in SchemaVariants
  /\ req[s].op = "findOneAndUpdate"
  /\ LET oid == req[s].oid
     IN  IF oid \in DOMAIN posts
         THEN /\ posts' = [posts EXCEPT ![oid] = ApplySet(posts[oid], req[s].set)]
              /\ last' = Reply("patch", 200, NoError, req[s].param, oid, [ok |-> TRUE])
         ELSE /\ UNCHANGED posts
              /\ last' = Reply("patch", 404, "not found", req[s].param, oid, NoBody)
  /\ req' = [req EXCEPT ![s] = Idle]
  /\ UNCHANGED <<mediaVars, variant, clock, nUpdates, submitted>>

\* ------------------------------------------------------- specifications
Creates(C) ==
  \/ Tick
  \/ \E q \in C : RoutesCreate(q)
  \/ \E s \in Slots : RoutesCreateDone(s)
  \/ \E q \in C : ServerCreate(q)
  \/ \E s \in Slots : ServerCreateDone(s)

Gets ==
  \/ \E id \in IdParams : RoutesGet(id)
  \/ \E id \in IdParams : ServerGet(id)

Updates ==
  \/ \E id \in PatchIdParams, p \in PatchBodies : RoutesPatch(id, p)
  \/ \E s \in Slots : RoutesPatchDone(s)
  \/ \E id \in PatchIdParams, p \in PatchBodies, alias \in BOOLEAN : ServerPatch(id, p, alias)
  \/ \E s \in Slots : ServerPatchDone(s)

\* creation and lookup, over every create request
Next == Creates(CreateRequests) \/ Gets

Spec == Init /\ [][Next]_vars

\* creation and update, over the create requests of the update scenarios
NextUpdate == Creates(FewCreateRequests) \/ Updates

SpecUpdate == Init /\ [][NextUpdate]_vars

\* ------------------------------------------------------------- claims
\* the store operation of slot s completes in this step
Completes(s, op) == req[s].op = op /\ req'[s] = Idle

InRange(b) ==
  /\ IsFinite(b.lng) /\ 0 - LNG_MAX <= b.lng[2] /\ b.lng[2] <= LNG_MAX
  /\ IsFinite(b.lat) /\ 0 - LAT_MAX <= b.lat[2] /\ b.lat[2] <= LAT_MAX

\* C1: of the Create requests that carry the same idempotency key at most one
\* inserts a post: no two stored posts come from requests with the same key.
C1_OneInsertPerKey ==
  \A m, n \in DOMAIN posts :
    (m # n /\ Tag(submitted[m].idemKey) = "string")
      => submitted[m].idemKey # submitted[n].idemKey

\* C1 (the case): a post created with an idempotency key is stored while a
\* second Create carrying the same key is in flight.
C1_Witness ==
  \E n \in DOMAIN posts, s \in Slots :
    /\ Tag(submitted[n].idemKey) = "string"
    /\ req[s].op = "insertOne"
    /\ req[s].input.idemKey = submitted[n].idemKey

\* C2: a Create whose idempotency key a stored post already holds is answered
\* with the conflict status 409, and the stored posts stay as they were.
C2_ConflictIs409 ==
  [][\A s \in Slots :
       (Completes(s, "insertOne") /\ IdemKeyTaken(req[s].doc))
         => (last'.status = 409 /\ posts' = posts)]_vars

\* C2 (the case): the reply to a Create rejected for its duplicate key.
C2_Witness ==
  /\ last.op = "create" /\ last.error = "Internal Server Error"
  /\ last.body.code = "11000"
  /\ \E n \in DOMAIN posts : posts[n].idemKey = K1

\* C3: no post is stored for a Create with mediaType yt and no ytId, nor for
\* one with mediaType img, gif or vid and no url.
C3_MediaRefRequired ==
  \A n \in DOMAIN posts :
    LET b == submitted[n]
    IN  /\ b.mediaType = YT => Truthy(b.ytId)
        /\ b.mediaType \in {IMG, GIF, VID} => Truthy(b.url)

\* C3 (the case): a Create without its media reference was refused.
C3_Witness ==
  /\ last.op = "create" /\ last.status = 400
  /\ last.error \in {"ytId required for mediaType=yt", "url required for img/gif/vid",
                     "url required for non-YouTube media"}

\* C4: every stored post has ytId and no url when its mediaType is yt, and
\* url and no ytId otherwise.
C4_TaggedUnion ==
  \A n \in DOMAIN posts :
    IF posts[n].mediaType = YT
    THEN Truthy(posts[n].ytId) /\ ~Truthy(posts[n].url)
    ELSE Truthy(posts[n].url) /\ ~Truthy(posts[n].ytId)

\* C5: every stored post was created from lng and lat that are finite numbers
\* inside [-180, 180] and [-90, 90].
C5_CreatedInRange == \A n \in DOMAIN posts : InRange(submitted[n])

\* C5 (the case): a Create with out-of-range coordinates failed at the store.
C5_Witness ==
  /\ last.op = "create" /\ last.status = 500
  /\ last.error \in {"server", "Internal Server Error"}
  /\ posts = <<>>

\* a Create input the data model calls valid: coordinates in range, a
\* mediaType of the enumeration, and the media reference that mediaType needs
ValidCreateInput(b) ==
  /\ InRange(b)
  /\ b.mediaType \in MediaEnum
  /\ IF b.mediaType = YT THEN Truthy(b.ytId) ELSE Truthy(b.url)

\* C6: a GET of a post created from a valid input returns the coordinates,
\* the mediaType and the media reference (ytId for yt, url otherwise) submitted.
C6_CreateGetRoundTrip ==
  (last.op = "get" /\ last.status = 200 /\ ValidCreateInput(submitted[last.oid]))
    => LET b == submitted[last.oid]
       IN  /\ last.body.coordinates = <<b.lng, b.lat>>
           /\ last.body.mediaType = b.mediaType
           /\ IF b.mediaType = YT THEN last.body.ytId = b.ytId
                                  ELSE last.body.url = b.url

\* C6 (the case): a GET answered with a post created from a valid yt input
\* that also carried a url.
C6_Witness ==
  /\ last.op = "get" /\ last.status = 200
  /\ ValidCreateInput(submitted[last.oid])
  /\ submitted[last.oid].mediaType = YT
  /\ submitted[last.oid].url = U1

\* an Update of a stored post is applied in this step
Applies(s) == Completes(s, "findOneAndUpdate") /\ req[s].oid \in DOMAIN posts

\* C7: a successful Update leaves each updatable field its body omits as it
\* was, and clears each updatable field its body gives as null.
C7_OmitKeepsNullClears ==
  [][\A s \in Slots : Applies(s) =>
       \A f \in UpdatableFields :
         /\ req[s].input[f] = Undef => posts'[req[s].oid][f] = posts[req[s].oid][f]
         /\ req[s].input[f] = Null => posts'[req[s].oid][f] = Null]_vars

\* C7 (the case): an Update with an explicit null for a field that held a
\* value is applied.
C7_Witness ==
  \E s \in Slots, f \in UpdatableFields :
    /\ req[s].op = "findOneAndUpdate" /\ req[s].oid \in DOMAIN posts
    /\ req[s].input[f] = Null
    /\ posts[req[s].oid][f] # Null

\* C8 as claimed: a successful Update makes updatedAt strictly greater and
\* leaves createdAt as it was.
C8_UpdatedAtStrictlyGreater ==
  [][\A s \in Slots : Applies(s) =>
       /\ posts'[req[s].oid].updatedAt[2] > posts[req[s].oid].updatedAt[2]
       /\ posts'[req[s].oid].createdAt = posts[req[s].oid].createdAt]_vars

\* C8 as amended: an Update request is stamped with the clock value read when
\* it is received; when it succeeds the post's updatedAt becomes that stamp
\* and createdAt stays as it was.
C8_UpdatedAtIsRequestTime ==
  [][\A s \in Slots :
       /\ (req[s] = Idle /\ req'[s].op = "findOneAndUpdate")
            => req'[s].set.updatedAt = <<"date", clock>>
       /\ Applies(s) =>
            /\ posts'[req[s].oid].updatedAt = req[s].set.updatedAt
            /\ posts'[req[s].oid].createdAt = posts[req[s].oid].createdAt]_vars

\* C8 (the case): an Update stamped after the post's last write is applied
\* with an empty body.
C8_Witness ==
  \E s \in Slots :
    /\ req[s].op = "findOneAndUpdate" /\ req[s].oid \in DOMAIN posts
    /\ req[s].input = EmptyPatch
    /\ req[s].set.updatedAt[2] > posts[req[s].oid].updatedAt[2]

\* C9: no step changes the mediaType or the location of a stored post.
C9_MediaTypeLocationImmutable ==
  [][\A n \in DOMAIN posts :
       /\ posts'[n].mediaType = posts[n].mediaType
       /\ posts'[n].location = posts[n].location]_vars

\* C9 (the case): an Update whose body names mediaType is applied.
C9_Witness ==
  \E s \in Slots :
    /\ req[s].op = "findOneAndUpdate" /\ req[s].oid \in DOMAIN posts
    /\ req[s].input.mediaType # Undef

\* C10 as claimed: a GET with a malformed id is answered 404, like a GET of
\* an id no post has.
C10_MalformedIsNotFound ==
  (last.op = "get" /\ last.param \in {NotHex, TooShort}) => last.status = 404

\* C10 as amended: a GET with a malformed id is answered 400, a GET of a
\* well-formed id no post has is answered 404, and a GET of a stored post 200.
C10_MalformedIsBadRequest ==
  last.op = "get" =>
    /\ last.param \in {NotHex, TooShort} => last.status = 400
    /\ \A n \in 1..MaxPosts :
         last.param = OidHex(n) =>
           last.status = (IF n \in DOMAIN posts THEN 200 ELSE 404)
    /\ last.param = MissingId => last.status = 404

\* C10 (the case): a GET with an id of the right length that is not hex.
C10_Witness == last.op = "get" /\ last.param = NotHex /\ last.status = 400

\* ===================================================== the list queries
\* ------------------------------------------------------------ helpers
Min(a, b) == IF a < b THEN a ELSE b
Max(a, b) == IF a > b THEN a ELSE b
Abs(a) == IF a < 0 THEN 0 - a ELSE a

\* the first n elements of a sequence
Take(s, n) == SubSeq(s, 1, Min(n, Len(s)))

\* the enumerations of a finite set, each element once
Perms(S) ==
  {f \in [1..Cardinality(S) -> S] : \A i, j \in DOMAIN f : i # j => f[i] # f[j]}

\* cursor.limit(n): 0 is no limit, and a negative n limits to -n rows
CursorLimit(rows, n) == IF n = 0 THEN rows ELSE Take(rows, Abs(n))

\* .sort({ createdAt: -1 }) of the posts numbered in S: any enumeration in
\* which no post comes before a newer one (the order of ties is the store's)
NewestFirst(S) ==
  {f \in Perms(S) :
     \A i \in 1..(Len(f) - 1) : posts[f[i]].createdAt[2] >= posts[f[i + 1]].createdAt[2]}

\* ------------------------------------------------- distances on the sphere
\* metres per degree of a great circle, for the earth radius of the 2dsphere index
METRES_PER_DEGREE == 111319

\* the cosine of a latitude of whole degrees, in thousandths: exact to the
\* thousandth at the latitudes the posts of the model lie on, the small-angle
\* value towards the poles elsewhere
CosPerMille(lat) ==
  CASE Abs(lat) = 0 -> 1000
    [] Abs(lat) = 20 -> 940
    [] Abs(lat) = 89 -> 17
    [] OTHER -> Min(1000, (LAT_MAX - Abs(lat)) * 17)

\* the distance in metres between two points [lng, lat] of whole degrees: the
\* longer of the leg along the parallel and the leg along the meridian
Distance(a, b) ==
  Max(Abs(a[1][2] - b[1][2]) * CosPerMille(a[2][2]) * (METRES_PER_DEGREE \div 1000),
      Abs(a[2][2] - b[2][2]) * METRES_PER_DEGREE)

\* $near with $maxDistance: the posts within maxDist metres of the center
InRadius(center, maxDist) ==
  {n \in DOMAIN posts : Distance(posts[n].location, center) <= maxDist}

\* $near returns them nearest first (the order of ties is the store's)
NearestFirst(S, center) ==
  {f \in Perms(S) :
     \A i \in 1..(Len(f) - 1) :
       Distance(posts[f[i]].location, center)
         <= Distance(posts[f[i + 1]].location, center)}

\* ---------------------------------------------- GET /api/posts/near
NEAR_MIN_RADIUS == 50
NEAR_MAX_RADIUS == 5000
NEAR_MAX_LIMIT == 200
ROUTES_NEAR_LIMIT == 80
SERVER_NEAR_RADIUS == 1609
SERVER_NEAR_LIMIT == 50

\* a query string (every value a string, or undefined) and the x-device-id header
Query(lng, lat, radiusMeters, limit, deviceId, xDeviceId) ==
  [lng |-> lng, lat |-> lat, radiusMeters |-> radiusMeters, limit |-> limit,
   deviceId |-> deviceId, xDeviceId |-> xDeviceId]

\* the answer to a list query, with the time of the request and the
\* parameters the store was queried with (since, dev: null when not filtered)
Rows(q, op, status, center, radius, limit, since, dev, rows) ==
  [q |-> q, op |-> op, status |-> status, at |-> clock, center |-> center,
   radius |-> radius, limit |-> limit, since |-> since, dev |-> dev, rows |-> rows]

NoRows(q, op, status) == Rows(q, op, status, Null, 0, 0, Null, Null, <<>>)

\* routes/posts.js
RoutesNear(q) ==
  /\ variant = "plugin"
  /\ LET lng == cleanNum(q.lng)
         lat == cleanNum(q.lat)
         radiusMeters ==
           Min(NEAR_MAX_RADIUS,
               Max(NEAR_MIN_RADIUS,
                   OrElse(cleanNum(q.radiusMeters), Num(NEAR_MAX_RADIUS))[2]))
         limit ==
           Min(NEAR_MAX_LIMIT,
               Max(1, OrElse(NumberOf(q.limit), Num(ROUTES_NEAR_LIMIT))[2]))
     IN  IF ~IsFinite(lng) \/ ~IsFinite(lat)
         THEN /\ last' = Reply("near", 400, "lng/lat required", NoBody, NoOid, NoBody)
              /\ qry' = NoRows(q, "near", 400)
         ELSE \E sorted \in NewestFirst(InRadius(Point(lng, lat), radiusMeters)) :
                LET rows == CursorLimit(sorted, limit)
                IN  /\ qry' = Rows(q, "near", 200, Point(lng, lat), radiusMeters, limit,
                                   Null, Null, rows)
                    /\ last' = Reply("near", 200, NoError, NoBody, NoOid,
                                     [i \in DOMAIN rows |-> toDTO(rows[i], posts[rows[i]])])
  /\ UNCHANGED <<variant, posts, clock, req, nUpdates, submitted, tz, files, sweep, swept>>

\* nearQuerySchema of server.js / part_000: lng and lat required, every
\* property a number after coercion; else 400
nearQueryValid(q) ==
  /\ q.lng # Undef /\ CoerceNumber(q.lng) # Invalid
  /\ q.lat # Undef /\ CoerceNumber(q.lat) # Invalid
  /\ q.radiusMeters # Undef => CoerceNumber(q.radiusMeters) # Invalid
  /\ q.limit # Undef => CoerceNumber(q.limit) # Invalid

\* server.js / part_000
ServerNear(q) ==
  /\ variant \in SchemaVariants
  /\ IF ~nearQueryValid(q)
     THEN /\ last' = Reply("near", 400, "Bad Request", NoBody, NoOid, NoBody)
          /\ qry' = NoRows(q, "near", 400)
     ELSE LET lng == CoerceNumber(q.lng)
              lat == CoerceNumber(q.lat)
              radiusMeters ==
                IF q.radiusMeters = Undef THEN Num(SERVER_NEAR_RADIUS)
                ELSE CoerceNumber(q.radiusMeters)
              limit ==
                IF q.limit = Undef THEN Num(SERVER_NEAR_LIMIT) ELSE CoerceNumber(q.limit)
              maxDist ==
                Min(OrElse(NumberOf(radiusMeters), Num(SERVER_NEAR_RADIUS))[2],
                    NEAR_MAX_RADIUS)
              lim ==
                Min(OrElse(NumberOf(limit), Num(SERVER_NEAR_LIMIT))[2], NEAR_MAX_LIMIT)
          IN  IF maxDist < 0
              THEN \* the store refuses a negative $maxDistance
                   /\ last' = Reply("near", 500, "Internal Server Error", NoBody, NoOid,
                                    NoBody)
                   /\ qry' = Rows(q, "near", 500, Point(lng, lat), maxDist, lim, Null, Null, <<>>)
              ELSE \E sorted \in NearestFirst(InRadius(Point(lng, lat), maxDist),
                                              Point(lng, lat)) :
                     LET rows == CursorLimit(sorted, lim)
                     IN  /\ qry' = Rows(q, "near", 200, Point(lng, lat), maxDist, lim,
                                        Null, Null, rows)
                         /\ last' = Reply("near", 200, NoError, NoBody, NoOid,
                                          [i \in DOMAIN rows |->
                                             toPub(rows[i], posts[rows[i]])])
  /\ UNCHANGED <<variant, posts, clock, req, nUpdates, submitted, tz, files, sweep, swept>>

\* --------------------------------------------------------- local time
\* The clock counts hours. A Date's local-time fields are those of clock + the
\* zone's offset in force at that instant.
DAY_HOURS == 24
SWEEP_HOUR == 3

OffsetAt(t) == IF t < tz.shiftAt THEN tz.before ELSE tz.after

\* the instant a local date and hour denote (Date.prototype.setHours, setDate):
\* across a shift back the earlier of the two instants
ToClock(local) ==
  IF local - tz.before < tz.shiftAt THEN local - tz.before ELSE local - tz.after

\* a last3am that never steps back to yesterday
last3am_Today(t) ==
  LET local == t + OffsetAt(t)
  IN  ToClock(((local \div DAY_HOURS) * DAY_HOURS) + SWEEP_HOUR)

\* server.js last3am, for now = new Date() at clock value t
last3am(t) ==
  LET local == t + OffsetAt(t)
      three == ((local \div DAY_HOURS) * DAY_HOURS) + SWEEP_HOUR
  IN  IF t < ToClock(three) THEN ToClock(three - DAY_HOURS) ELSE ToClock(three)

\* -------------------------------------------- GET /api/posts/recent
ROUTES_RECENT_LIMIT == 9
ROUTES_RECENT_MAX == 200
SERVER_RECENT_LIMIT == 200
SERVER_RECENT_MAX == 400

\* routes/posts.js: no cutoff
RoutesRecent(q) ==
  /\ variant = "plugin"
  /\ LET limit ==
           Min(ROUTES_RECENT_MAX,
               Max(1, OrElse(NumberOf(q.limit), Num(ROUTES_RECENT_LIMIT))[2]))
     IN  \E sorted \in NewestFirst(DOMAIN posts) :
           LET rows == CursorLimit(sorted, limit)
           IN  /\ qry' = Rows(q, "recent", 200, Null, 0, limit, Null, Null, rows)
               /\ last' = Reply("recent", 200, NoError, NoBody, NoOid,
                                [i \in DOMAIN rows |-> toDTO(rows[i], posts[rows[i]])])
  /\ UNCHANGED <<variant, posts, clock, req, nUpdates, submitted, tz, files, sweep, swept>>

\* the row of server.js's recent list
toRow(n, doc) ==
  [id |-> Str(OidHex(n)), mediaType |-> doc.mediaType, url |-> doc.url,
   ytId |-> doc.ytId, natSize |-> doc.natSize, pxAtPlace |-> doc.pxAtPlace,
   coordinates |-> doc.location, createdAt |-> doc.createdAt]

\* the row of server.js's history list
toHistoryRow(n, doc) == toRow(n, doc) @@ [userCenter |-> doc.userCenter]

\* server.js: createdAt >= last3am()
ServerRecent(q) ==
  /\ variant = "mono"
  /\ LET limit ==
           Min(OrElse(NumberOf(q.limit), Num(SERVER_RECENT_LIMIT))[2], SERVER_RECENT_MAX)
         since == last3am(clock)
     IN  \E sorted \in NewestFirst({n \in DOMAIN posts : posts[n].createdAt[2] >= since}) :
           LET rows == CursorLimit(sorted, limit)
           IN  /\ qry' = Rows(q, "recent", 200, Null, 0, limit, Date(since), Null, rows)
               /\ last' = Reply("recent", 200, NoError, NoBody, NoOid,
                                [i \in DOMAIN rows |-> toRow(rows[i], posts[rows[i]])])
  /\ UNCHANGED <<variant, posts, clock, req, nUpdates, submitted, tz, files, sweep, swept>>

\* part_000 has no recent route: the path is served by GET /api/posts/:id
\* with id = 'recent', which is no ObjectId
PartRecent(q) ==
  /\ variant = "part"
  /\ ~ObjectIdIsValid(<<"r", "e", "c", "e", "n", "t">>)
  /\ last' = Reply("recent", 400, "invalid id", NoBody, NoOid, NoBody)
  /\ qry' = NoRows(q, "recent", 400)
  /\ UNCHANGED <<variant, posts, clock, req, nUpdates, submitted, tz, files, sweep, swept>>

\* -------------------------------------------- GET /api/posts/latest
\* find(filter): the posts of a device, or all posts
OfDevice(dev) ==
  {n \in DOMAIN posts : Truthy(dev) => posts[n].deviceId = dev}

\* routes/posts.js: 404 when no post matches
RoutesLatest(q) ==
  /\ variant = "plugin"
  /\ LET dev == OrElse(q.deviceId, Null)
     IN  \E sorted \in NewestFirst(OfDevice(dev)) :
           LET rows == CursorLimit(sorted, 1)
           IN  /\ qry' = Rows(q, "latest", IF rows = <<>> THEN 404 ELSE 200, Null, 0, 1,
                              Null, dev, rows)
               /\ last' = IF rows = <<>>
                          THEN Reply("latest", 404, "not found", NoBody, NoOid, NoBody)
                          ELSE Reply("latest", 200, NoError, NoBody, rows[1],
                                     toDTO(rows[1], posts[rows[1]]))
  /\ UNCHANGED <<variant, posts, clock, req, nUpdates, submitted, tz, files, sweep, swept>>

\* server.js / part_000: null when no post matches
ServerLatest(q) ==
  /\ variant \in SchemaVariants
  /\ LET dev == OrElse(Coalesce(q.deviceId, q.xDeviceId), Null)
     IN  \E sorted \in NewestFirst(OfDevice(dev)) :
           LET rows == CursorLimit(sorted, 1)
           IN  /\ qry' = Rows(q, "latest", 200, Null, 0, 1, Null, dev, rows)
               /\ last' = IF rows = <<>>
                          THEN Reply("latest", 200, NoError, NoBody, NoOid, Null)
                          ELSE Reply("latest", 200, NoError, NoBody, rows[1],
                                     toPub(rows[1], posts[rows[1]]))
  /\ UNCHANGED <<variant, posts, clock, req, nUpdates, submitted, tz, files, sweep, swept>>

\* ------------------------------------------- GET /api/posts/history
ROUTES_HISTORY_LIMIT == 200
SERVER_HISTORY_LIMIT == 10
SERVER_HISTORY_MAX == 50

\* routes/posts.js: reads neither deviceId nor limit
RoutesHistory(q) ==
  /\ variant = "plugin"
  /\ \E sorted \in NewestFirst(DOMAIN posts) :
       LET rows == CursorLimit(sorted, ROUTES_HISTORY_LIMIT)
       IN  /\ qry' = Rows(q, "history", 200, Null, 0, ROUTES_HISTORY_LIMIT, Null, Null, rows)
           /\ last' = Reply("history", 200, NoError, NoBody, NoOid,
                            [i \in DOMAIN rows |-> toDTO(rows[i], posts[rows[i]])])
  /\ UNCHANGED <<variant, posts, clock, req, nUpdates, submitted, tz, files, sweep, swept>>

\* server.js
ServerHistory(q) ==
  /\ variant = "mono"
  /\ LET limit ==
           Min(OrElse(NumberOf(q.limit), Num(SERVER_HISTORY_LIMIT))[2], SERVER_HISTORY_MAX)
         deviceId == OrElse(OrElse(q.deviceId, q.xDeviceId), EMPTY)
     IN  \E sorted \in NewestFirst(OfDevice(deviceId)) :
           LET rows == CursorLimit(sorted, limit)
           IN  /\ qry' = Rows(q, "history", 200, Null, 0, limit, Null, deviceId, rows)
               /\ last' = Reply("history", 200, NoError, NoBody, NoOid,
                                [i \in DOMAIN rows |->
                                   toHistoryRow(rows[i], posts[rows[i]])])
  /\ UNCHANGED <<variant, posts, clock, req, nUpdates, submitted, tz, files, sweep, swept>>

\* histQuerySchema of part_000: deviceId a string, limit a number after coercion
histQueryValid(q) == q.limit # Undef => CoerceNumber(q.limit) # Invalid

\* part_000: parseInt(req.query?.limit || '10', 10) of the coerced limit
PartHistory(q) ==
  /\ variant = "part"
  /\ IF ~histQueryValid(q)
     THEN /\ last' = Reply("history", 400, "Bad Request", NoBody, NoOid, NoBody)
          /\ qry' = NoRows(q, "history", 400)
     ELSE LET coerced == IF q.limit = Undef THEN Undef ELSE CoerceNumber(q.limit)
              limit ==
                Min(OrElse(coerced, Num(SERVER_HISTORY_LIMIT))[2], SERVER_HISTORY_MAX)
              deviceId == OrElse(q.deviceId, Null)
          IN  \E sorted \in NewestFirst(OfDevice(deviceId)) :
                LET rows == CursorLimit(sorted, limit)
                IN  /\ qry' = Rows(q, "history", 200, Null, 0, limit, Null, deviceId, rows)
                    /\ last' = Reply("history", 200, NoError, NoBody, NoOid,
                                     [i \in DOMAIN rows |-> toPub(rows[i], posts[rows[i]])])
  /\ UNCHANGED <<variant, posts, clock, req, nUpdates, submitted, tz, files, sweep, swept>>

\* ----------------------------------------------- list query scenarios
\* the posts of the list scenarios lie on the parallel of 89 degrees: one,
\* two and ten degrees east of the query center (10, 89)
NearBody(lng, dev) ==
  [BaseBody EXCEPT !.lng = Num(lng), !.lat = Num(89), !.deviceId = dev]

QueryCreateRequests ==
  {Request(NearBody(11, D1), Undef), Request(NearBody(12, D2), Undef),
   Request(NearBody(20, Undef), Undef)}

S10 == Str(<<"1", "0">>)
S89 == Str(<<"8", "9">>)
S0 == Str(<<"0">>)
S1 == Str(<<"1">>)
SMinus5 == Str(<<"-", "5">>)
SMinus1000 == Str(<<"-", "1", "0", "0", "0">>)
S4000 == Str(<<"4", "0", "0", "0">>)
S200000 == Str(<<"2", "0", "0", "0", "0", "0">>)

\* the limit values of a query string: missing, zero, negative, non-numeric,
\* small and oversized
LimitInputs == {Undef, S0, PDF, S1, SMinus1000}

NearQueries ==
  {Query(S10, S89, r, Undef, Undef, Undef) :
     r \in {Undef, S0, SMinus5, PDF, S10, S200000}}
  \cup {Query(S10, S89, S4000, l, Undef, Undef) : l \in LimitInputs}
  \cup {Query(Undef, S89, Undef, Undef, Undef, Undef)}

RecentQueries == {Query(Undef, Undef, Undef, l, Undef, Undef) : l \in LimitInputs}

LatestQueries ==
  {Query(Undef, Undef, Undef, Undef, d, Undef) : d \in {Undef, D1, D2, EMPTY}}
  \cup {Query(Undef, Undef, Undef, Undef, Undef, D1)}

HistoryQueries ==
  {Query(Undef, Undef, Undef, l, Undef, Undef) : l \in LimitInputs}
  \cup {Query(Undef, Undef, Undef, l, D1, Undef) : l \in {Undef, S1}}
  \cup {Query(Undef, Undef, Undef, Undef, Undef, D1)}

\* the time zones of the scenarios: clock 0 is 02:00 local time, or 03:00, or
\* 02:00 one hour after a daylight-saving shift back from 02:00 to 01:00
Zones == {Zone(2, 2, 0), Zone(3, 3, 0), Zone(3, 2, 0 - 1)}

\* the list scenarios start at 02:00 local time, one hour before the cutoff
InitQuery ==
  /\ variant \in AllVariants
  /\ tz = Zone(2, 2, 0)
  /\ posts = <<>>
  /\ clock = 0
  /\ req = [s \in Slots |-> Idle]
  /\ last = Reply("none", 0, NoError, NoBody, NoOid, NoBody)
  /\ nUpdates = 0
  /\ submitted = <<>>
  /\ files = <<>>
  /\ sweep = NoSweep
  /\ swept = NoSweep
  /\ qry = NoQuery

Lists ==
  \/ \E q \in NearQueries : RoutesNear(q) \/ ServerNear(q)
  \/ \E q \in RecentQueries : RoutesRecent(q) \/ ServerRecent(q) \/ PartRecent(q)
  \/ \E q \in LatestQueries : RoutesLatest(q) \/ ServerLatest(q)
  \/ \E q \in HistoryQueries : RoutesHistory(q) \/ ServerHistory(q) \/ PartHistory(q)

NextQuery == Creates(QueryCreateRequests) \/ Lists

SpecQuery == InitQuery /\ [][NextQuery]_vars

\* ------------------------------------------------ claims on the lists
\* the rows of the answered query are in no-newer-before-older order
RowsNewestFirst ==
  \A i \in 1..(Len(qry.rows) - 1) :
    posts[qry.rows[i]].createdAt[2] >= posts[qry.rows[i + 1]].createdAt[2]

\* the number of rows the store was asked for (cursor.limit(n)) is within
\* 1..max, and no more rows are returned
LimitWithin(max) ==
  /\ 1 <= Abs(qry.limit) /\ Abs(qry.limit) <= max
  /\ Len(qry.rows) <= Abs(qry.limit)

\* C11: every near query with a valid center is run with a radius within
\* [50, 5000] metres and a limit within [1, 200], returns no post farther from
\* the center than that radius, and no more posts than that limit.
C11_NearClamped ==
  (qry.op = "near" /\ qry.status # 400) =>
    /\ qry.status = 200
    /\ NEAR_MIN_RADIUS <= qry.radius /\ qry.radius <= NEAR_MAX_RADIUS
    /\ LimitWithin(NEAR_MAX_LIMIT)
    /\ \A i \in DOMAIN qry.rows :
         Distance(posts[qry.rows[i]].location, qry.center) <= qry.radius

\* C11 (the case): a near query that asked for a radius under 50 metres is
\* answered while a post lies beyond the radius it was run with.
C11_Witness ==
  /\ qry.op = "near" /\ qry.status = 200 /\ qry.q.radiusMeters = S10
  /\ \E n \in DOMAIN posts : Distance(posts[n].location, qry.center) > qry.radius

\* C12: the rows of a near query are ordered nearest first.
C12_NearestFirst ==
  (qry.op = "near" /\ qry.status = 200) =>
    \A i \in 1..(Len(qry.rows) - 1) :
      Distance(posts[qry.rows[i]].location, qry.center)
        <= Distance(posts[qry.rows[i + 1]].location, qry.center)

\* C12 (the case): a near query returns two posts at different distances, of
\* which the farther one is the newer.
C12_Witness ==
  /\ qry.op = "near" /\ qry.status = 200 /\ Len(qry.rows) = 2
  /\ \E i, j \in DOMAIN qry.rows :
       /\ Distance(posts[qry.rows[i]].location, qry.center)
            < Distance(posts[qry.rows[j]].location, qry.center)
       /\ posts[qry.rows[i]].createdAt[2] < posts[qry.rows[j]].createdAt[2]

\* C13: the recent list holds only posts created at or after the cutoff of
\* the time of the request, newest first, and at most a limit within [1, 400].
C13_RecentSinceCutoff ==
  (qry.op = "recent" /\ qry.status = 200) =>
    /\ \A i \in DOMAIN qry.rows : posts[qry.rows[i]].createdAt[2] >= last3am(qry.at)
    /\ RowsNewestFirst
    /\ LimitWithin(SERVER_RECENT_MAX)

\* C13 (the case): the recent list is answered while a post created before
\* the cutoff is stored.
C13_Witness ==
  /\ qry.op = "recent" /\ qry.status = 200
  /\ \E n \in DOMAIN posts : posts[n].createdAt[2] < last3am(qry.at)

\* the deviceId a list request names; none when only the header names one
GivenDevice(q) == OrElse(q.deviceId, Null)

\* C14: a latest request without x-device-id header is answered without an
\* error: with a newest post among those of the device it names (among all
\* posts when it names none), and with none when there is no such post.
C14_LatestOrNone ==
  [][(qry'.op = "latest" /\ qry' # qry /\ qry'.q.xDeviceId = Undef) =>
       LET S == OfDevice(GivenDevice(qry'.q))
           rows == qry'.rows
       IN  /\ qry'.status = 200 /\ last'.status = 200
           /\ S = {} => rows = <<>>
           /\ S # {} =>
                /\ Len(rows) = 1 /\ rows[1] \in S
                /\ \A n \in S : posts[n].createdAt[2] <= posts[rows[1]].createdAt[2]]_vars

\* C14 (the case): a latest request names a device that has no post, while
\* another device has one.
C14_Witness ==
  /\ qry.op = "latest" /\ Truthy(qry.q.deviceId)
  /\ qry.rows = <<>> /\ posts # <<>>

\* C15: the history list is newest first, holds only posts of the device the
\* request names, and at most a limit within [1, 50].
C15_HistoryOfDevice ==
  (qry.op = "history" /\ qry.status = 200 /\ qry.q.xDeviceId = Undef) =>
    /\ RowsNewestFirst
    /\ Truthy(GivenDevice(qry.q)) =>
         \A i \in DOMAIN qry.rows : posts[qry.rows[i]].deviceId = GivenDevice(qry.q)
    /\ LimitWithin(SERVER_HISTORY_MAX)

\* C15 (the case): the history of a device is asked for while a post of
\* another device is stored.
C15_Witness ==
  /\ qry.op = "history" /\ qry.status = 200 /\ qry.q.deviceId = D1
  /\ \E n \in DOMAIN posts : posts[n].deviceId # D1

\* ------------------------------------------------- the upload directory
\* files uploaded so far are capped at MaxFiles
MaxFiles == 2

\* String.prototype.startsWith
StartsWith(s, p) == Len(s) >= Len(p) /\ SubSeq(s, 1, Len(p)) = p

IMAGE_ == <<"i", "m", "a", "g", "e", "/">>
VIDEO_ == <<"v", "i", "d", "e", "o", "/">>
IMAGE_JPEG == IMAGE_ \o <<"j", "p", "e", "g">>
IMAGE_PNG == IMAGE_ \o <<"p", "n", "g">>
IMAGE_GIF == IMAGE_ \o <<"g", "i", "f">>
IMAGE_WEBP == IMAGE_ \o <<"w", "e", "b", "p">>
IMAGE_BMP == IMAGE_ \o <<"b", "m", "p">>
VIDEO_MP4 == VIDEO_ \o <<"m", "p", "4">>
VIDEO_WEBM == VIDEO_ \o <<"w", "e", "b", "m">>
VIDEO_OGG == VIDEO_ \o <<"o", "g", "g">>
VIDEO_OGV == VIDEO_ \o <<"o", "g", "v">>
APPLICATION_PDF == <<"a", "p", "p", "l", "i", "c", "a", "t", "i", "o", "n", "/", "p", "d", "f">>
OCTET_STREAM == <<"a", "p", "p", "l", "i", "c", "a", "t", "i", "o", "n", "/", "o", "c", "t", "e", "t", "-", "s", "t", "r", "e", "a", "m">>

JPG == <<"j", "p", "g">>
PNG == <<"p", "n", "g">>
GIF_EXT == <<"g", "i", "f">>
WEBP == <<"w", "e", "b", "p">>
MP4 == <<"m", "p", "4">>
WEBM == <<"w", "e", "b", "m">>
OGV == <<"o", "g", "v">>
BIN == <<"b", "i", "n">>
DOT == <<".">>

\* part_000: the mime whitelist and its extension map
ALLOW ==
  {IMAGE_JPEG, IMAGE_PNG, IMAGE_GIF, IMAGE_WEBP, VIDEO_MP4, VIDEO_WEBM, VIDEO_OGG}

\* EXT[mime]; undefined (the empty sequence here) for a mime that is no key
EXT(mime) ==
  CASE mime = IMAGE_JPEG -> JPG [] mime = IMAGE_PNG -> PNG
    [] mime = IMAGE_GIF -> GIF_EXT [] mime = IMAGE_WEBP -> WEBP
    [] mime = VIDEO_MP4 -> MP4 [] mime = VIDEO_WEBM -> WEBM
    [] mime = VIDEO_OGG -> OGV [] OTHER -> <<>>

\* server.js safeExtByMime: the extension with its dot, '' when refused
safeExtByMime(mime) ==
  IF StartsWith(mime, IMAGE_)
  THEN CASE mime = IMAGE_GIF -> DOT \o GIF_EXT
         [] mime = IMAGE_PNG -> DOT \o PNG
         [] mime = IMAGE_WEBP -> DOT \o WEBP
         [] OTHER -> DOT \o JPG
  ELSE IF StartsWith(mime, VIDEO_)
  THEN CASE mime = VIDEO_WEBM -> DOT \o WEBM
         [] mime = VIDEO_OGG \/ mime = VIDEO_OGV -> DOT \o OGV
         [] OTHER -> DOT \o MP4
  ELSE <<>>

\* the index of the last '.' in s, 0 when there is none
LastDot(s) ==
  LET dots == {i \in 1..Len(s) : s[i] = "."}
  IN  IF dots = {} THEN 0 ELSE CHOOSE i \in dots : \A j \in dots : j <= i

\* path.extname(name).replace('.', ''): the characters after the last dot of
\* a name that does not start with it
ExtOfName(s) ==
  IF LastDot(s) <= 1 THEN <<>> ELSE SubSeq(s, LastDot(s) + 1, Len(s))

\* routes/upload.js extGuess, of the lower-cased file name
extGuess(filename) ==
  LET fromName == ExtOfName(toLowerCase(Str(filename))[2])
  IN  IF fromName # <<>> THEN fromName ELSE BIN

DigitChar(d) == CHOOSE c \in Digits : DigitVal(c) = d

\* `${n}` of a non-negative integer
RECURSIVE ToDigits(_)
ToDigits(n) ==
  IF n < 10 THEN <<DigitChar(n)>>
  ELSE ToDigits(n \div 10) \o <<DigitChar(n % 10)>>

\* what crypto.randomUUID() can return
Uuids == {<<"a">>, <<"b">>}

\* `${Date.now()}-${crypto.randomUUID()}${ext}` at clock value t
newUploadName(t, uuid, ext) == ToDigits(t) \o <<"-">> \o uuid \o ext

UPLOADS_ == <<"/", "u", "p", "l", "o", "a", "d", "s", "/">>

\* a multipart request with one file part, or with none
FilePart(mimetype, filename, content) ==
  [mimetype |-> mimetype, filename |-> filename, content |-> content]
NoFile == [mimetype |-> <<>>, filename |-> <<>>, content |-> "none"]
NoName == <<>>

\* the response of POST /api/upload, with the request and the generated name
UploadReply(status, error, body, input, name) ==
  [op |-> "upload", status |-> status, error |-> error, param |-> NoBody,
   oid |-> NoOid, body |-> body, input |-> input, name |-> name]

Uploaded(name, mime) == [ok |-> TRUE, url |-> UPLOADS_ \o name, mime |-> mime]

\* the directory after name was written with content
Written(name, content) ==
  [n \in DOMAIN files \cup {name} |-> IF n = name THEN content ELSE files[n]]

\* the files the server found in the directory when it started
Preexisting ==
  [n \in {<<"r", "e", "a", "d", "m", "e">>, <<"0", "-">>, <<"7", "x", "-", "a">>,
          <<"-", "1", "-", "a">>} |-> "c0"]

CanUpload(name) ==
  \/ name \in DOMAIN files
  \/ Cardinality(DOMAIN files \ DOMAIN Preexisting) < MaxFiles

\* routes/upload.js POST /api/upload
RoutesUpload(u, uuid) ==
  /\ variant = "plugin"
  /\ IF u = NoFile
     THEN /\ last' = UploadReply(400, "no file", NoBody, u, NoName)
          /\ UNCHANGED files
     ELSE LET fname == newUploadName(clock, uuid, DOT \o extGuess(u.filename))
              mime == IF u.mimetype # <<>> THEN u.mimetype ELSE OCTET_STREAM
          IN  /\ CanUpload(fname)
              /\ files' = Written(fname, u.content)
              /\ last' = UploadReply(201, NoError, Uploaded(fname, mime), u, fname)
  /\ UNCHANGED <<variant, posts, clock, req, nUpdates, submitted, tz, sweep, swept, qry>>

\* server.js POST /api/upload; createWriteStream(full, { flags: 'wx' }) fails
\* when the name exists, and the rejected promise is answered 500
ServerUpload(u, uuid) ==
  /\ variant = "mono"
  /\ IF u = NoFile
     THEN /\ last' = UploadReply(400, "no file", NoBody, u, NoName)
          /\ UNCHANGED files
     ELSE IF safeExtByMime(u.mimetype) = <<>>
     THEN /\ last' = UploadReply(400, "unsupported mime", NoBody, u, NoName)
          /\ UNCHANGED files
     ELSE LET name == newUploadName(clock, uuid, safeExtByMime(u.mimetype))
          IN  /\ CanUpload(name)
              /\ IF name \in DOMAIN files
                 THEN /\ last' = UploadReply(500, "EEXIST", NoBody, u, name)
                      /\ UNCHANGED files
                 ELSE /\ files' = Written(name, u.content)
                      /\ last' = UploadReply(201, NoError, Uploaded(name, u.mimetype), u, name)
  /\ UNCHANGED <<variant, posts, clock, req, nUpdates, submitted, tz, sweep, swept, qry>>

\* part_000 POST /api/upload; createWriteStream(outPath) truncates a file
\* that exists
PartUpload(u, uuid) ==
  /\ variant = "part"
  /\ IF u = NoFile
     THEN /\ last' = UploadReply(400, "no file", NoBody, u, NoName)
          /\ UNCHANGED files
     ELSE IF u.mimetype \notin ALLOW
     THEN /\ last' = UploadReply(415, "unsupported type", NoBody, u, NoName)
          /\ UNCHANGED files
     ELSE LET ext == IF EXT(u.mimetype) # <<>> THEN EXT(u.mimetype) ELSE BIN
              name == newUploadName(clock, uuid, DOT \o ext)
          IN  /\ CanUpload(name)
              /\ files' = Written(name, u.content)
              /\ last' = UploadReply(201, NoError, Uploaded(name, u.mimetype), u, name)
  /\ UNCHANGED <<variant, posts, clock, req, nUpdates, submitted, tz, sweep, swept, qry>>

\* ------------------------------------------------------ cleanupUploads
\* the length of the longest prefix of digits of name
RECURSIVE DigitPrefix(_)
DigitPrefix(name) ==
  IF name # <<>> /\ name[1] \in Digits THEN 1 + DigitPrefix(Tail(name)) ELSE 0

\* /^(\d+)-/.exec(name)
StampMatches(name) ==
  /\ DigitPrefix(name) >= 1
  /\ Len(name) > DigitPrefix(name)
  /\ name[DigitPrefix(name) + 1] = "-"

\* Number(m[1]); finite for every stamp of these scenarios
StampOf(name) == ParseRadix(SubSeq(name, 1, DigitPrefix(name)), 10)

\* a sweep that spares a file some post's url refers to
StaleNames_Unreferenced(names, cutoff) ==
  {name \in names :
     /\ StampMatches(name) /\ StampOf(name) < cutoff
     /\ \A n \in DOMAIN posts : posts[n].url # Str(UPLOADS_ \o name)}

\* a sweep that also unlinks a file stamped at the cutoff
StaleNames_AtCutoff(names, cutoff) ==
  {name \in names : StampMatches(name) /\ StampOf(name) <= cutoff}

\* the names cleanupUploads unlinks: ts < cutoff
StaleNames(names, cutoff) ==
  {name \in names : StampMatches(name) /\ StampOf(name) < cutoff}

\* cleanupUploads up to await fsp.readdir(UP_DIR): the cutoff is taken. The
\* timer starts it once an hour
SweepStart ==
  /\ variant = "mono"
  /\ sweep.pc = "idle"
  /\ swept.pc = "done" => swept.at < clock
  /\ sweep' = [pc |-> "readdir", cutoff |-> last3am(clock), at |-> clock,
               pending |-> {}]
  /\ UNCHANGED <<variant, posts, clock, req, last, nUpdates, submitted, tz, files, swept, qry>>

\* cleanupUploads from the completion of readdir: the loop over the names
\* starts an unlink for every stale one and does not await it
SweepReaddir ==
  /\ sweep.pc = "readdir"
  /\ LET stale == StaleNames(DOMAIN files, sweep.cutoff)
     IN  /\ sweep' = IF stale = {} THEN NoSweep
                     ELSE [sweep EXCEPT !.pc = "unlink", !.pending = stale]
         /\ swept' = [pc |-> "done", cutoff |-> sweep.cutoff, at |-> sweep.at,
                      names |-> DOMAIN files, unlinked |-> stale]
  /\ UNCHANGED <<variant, posts, clock, req, last, nUpdates, submitted, tz, files, qry>>

\* fsp.unlink(p).catch(() => {}) completes
Unlink(name) ==
  /\ sweep.pc = "unlink"
  /\ name \in sweep.pending
  /\ files' = [n \in DOMAIN files \ {name} |-> files[n]]
  /\ sweep' = IF sweep.pending = {name} THEN NoSweep
              ELSE [sweep EXCEPT !.pending = sweep.pending \ {name}]
  /\ UNCHANGED <<variant, posts, clock, req, last, nUpdates, submitted, tz, swept, qry>>

\* ------------------------------------------------- the media scenarios
FileParts ==
  {NoFile}
  \cup {FilePart(m[1], m[2], c) :
          m \in {<<IMAGE_JPEG, <<"p", ".", "J", "P", "G">>>>,
                 <<VIDEO_OGG, <<"v", ".", "o", "g", "g">>>>,
                 <<IMAGE_BMP, <<"b">>>>,
                 <<APPLICATION_PDF, <<"d", ".", "p", "d", "f">>>>},
          c \in {"c1", "c2"}}

\* the upload directory as the server finds it when it starts, in each of
\* the three programs; the time zone matters to the sweeper alone
InitMedia ==
  /\ variant \in AllVariants
  /\ tz \in (IF variant = "mono" THEN Zones ELSE {Zone(2, 2, 0)})
  /\ posts = <<>>
  /\ clock = 0
  /\ req = [s \in Slots |-> Idle]
  /\ last = Reply("none", 0, NoError, NoBody, NoOid, NoBody)
  /\ nUpdates = 0
  /\ submitted = <<>>
  /\ files = Preexisting
  /\ sweep = NoSweep
  /\ swept = NoSweep
  /\ qry = NoQuery

Uploads ==
  \E u \in FileParts, uuid \in Uuids :
    RoutesUpload(u, uuid) \/ ServerUpload(u, uuid) \/ PartUpload(u, uuid)

Sweeps ==
  \/ SweepStart
  \/ SweepReaddir
  \/ \E name \in DOMAIN files : Unlink(name)

\* uploads and sweeps
NextMedia == Tick \/ Uploads \/ Sweeps

SpecMedia == InitMedia /\ [][NextMedia]_vars

\* ---------------------------------------------- the retention scenarios
\* the server with the sweeper (server.js 104-513): uploads, sweeps, and
\* posts created and updated with the url an upload returned
UploadedUrls == {Str(UPLOADS_ \o name) : name \in DOMAIN files \ DOMAIN Preexisting}

MediaCreateRequests == {Request([BaseBody EXCEPT !.url = u], Undef) : u \in UploadedUrls}

MediaPatchBodies ==
  {[EmptyPatch EXCEPT !.comment = HI]} \cup {[EmptyPatch EXCEPT !.url = u] : u \in UploadedUrls}

RetainedFileParts == {FilePart(IMAGE_JPEG, <<"p", ".", "J", "P", "G">>, "c1")}

InitRetention ==
  /\ variant = "mono"
  /\ tz = Zone(2, 2, 0)
  /\ posts = <<>>
  /\ clock = 0
  /\ req = [s \in Slots |-> Idle]
  /\ last = Reply("none", 0, NoError, NoBody, NoOid, NoBody)
  /\ nUpdates = 0
  /\ submitted = <<>>
  /\ files = Preexisting
  /\ sweep = NoSweep
  /\ swept = NoSweep
  /\ qry = NoQuery

NextRetention ==
  \/ Tick
  \/ \E u \in RetainedFileParts : ServerUpload(u, <<"a">>)
  \/ Sweeps
  \/ \E q \in MediaCreateRequests : ServerCreate(q)
  \/ \E s \in Slots : ServerCreateDone(s)
  \/ \E p \in MediaPatchBodies : ServerPatch(OidHex(1), p, FALSE)
  \/ \E s \in Slots : ServerPatchDone(s)

SpecRetention == InitRetention /\ [][NextRetention]_vars

\* ------------------------------------------------ claims on the sweeper
\* name is {t}-{rest} for a decimal timestamp t before the cutoff
StampedBefore(name, cutoff) ==
  \E k \in 1..(Len(name) - 1) :
    /\ \A i \in 1..k : name[i] \in Digits
    /\ name[k + 1] = "-"
    /\ ParseRadix(SubSeq(name, 1, k), 10) < cutoff

UploadStep == last' # last /\ last'.op = "upload" /\ last'.input # NoFile

\* C17: an upload whose mime type is not in the allow-list (ALLOW) is
\* answered 415, writes no file and returns no url; an upload of an allowed
\* type that is stored is stored under the extension the map (EXT) gives
C17_DisallowedIs415 ==
  [][UploadStep =>
       IF last'.input.mimetype \notin ALLOW
       THEN last'.status = 415 /\ files' = files /\ last'.body = NoBody
       ELSE last'.status = 201 =>
              /\ last'.name \in DOMAIN files'
              /\ files'[last'.name] = last'.input.content
              /\ ExtOfName(last'.name) = EXT(last'.input.mimetype)]_vars

\* C17 (the case): an upload of a type outside the allow-list was answered,
\* and the directory holds a file stored for an upload of video/ogg
C17_Witness ==
  /\ last.op = "upload" /\ last.input # NoFile
  /\ last.input.mimetype \notin ALLOW
  /\ \E uuid \in Uuids, ext \in {<<"o", "g", "g">>, OGV} :
       newUploadName(0, uuid, DOT \o ext) \in DOMAIN files

\* C19: an upload whose generated name exists in the directory fails with an
\* error and leaves the directory as it was; no step changes the content of
\* a stored file
C19_NeverOverwrites ==
  [][/\ (UploadStep /\ last'.name \in DOMAIN files) =>
          last'.status >= 400 /\ files' = files
     /\ \A name \in DOMAIN files \cap DOMAIN files' : files'[name] = files[name]]_vars

\* C19 (the case): an upload generated the name of a stored file and was refused
C19_Witness ==
  /\ last.op = "upload" /\ last.status = 500
  /\ last.name \in DOMAIN files
  /\ files[last.name] # last.input.content

\* ------------------------------------------------- claims on the cutoff
\* the local date and hour of the instant t, in hours
LocalTime(t) == t + OffsetAt(t)
LocalHour(t) == LocalTime(t) % DAY_HOURS
LocalDay(t) == LocalTime(t) \div DAY_HOURS

\* the cutoff is the most recent instant at or before now at which the local
\* time is 03:00: yesterday's when now is before today's 03:00, else today's
IsLast3am(cutoff, now) ==
  /\ cutoff <= now
  /\ LocalHour(cutoff) = SWEEP_HOUR
  /\ \A t \in (cutoff + 1)..now : LocalHour(t) # SWEEP_HOUR
  /\ LocalDay(cutoff) =
       IF LocalHour(now) < SWEEP_HOUR THEN LocalDay(now) - 1 ELSE LocalDay(now)

Referenced == {name \in DOMAIN files : \E n \in DOMAIN posts : posts[n].url = Str(UPLOADS_ \o name)}

\* a step of the sweeper: it takes its cutoff, reads the directory, or one of
\* its unlinks removes a file
SweepStep == sweep' # sweep \/ swept' # swept \/ DOMAIN files' # DOMAIN files \cup DOMAIN files'

\* C20: no step of the sweeper changes the posts collection, whatever requests
\* are in flight, and a sweep unlinks every file stamped before its cutoff
\* that a post refers to, as it does those no post refers to
C20_SweepIgnoresPosts ==
  [][/\ SweepStep => posts' = posts
     /\ swept' # swept =>
          \A name \in Referenced :
            name \in swept'.unlinked <=> StampedBefore(name, swept'.cutoff)]_vars

\* C20 (the case): a post's url refers to a file that a sweep has deleted
C20_Witness ==
  /\ swept.pc = "done"
  /\ \E n \in DOMAIN posts, name \in swept.unlinked :
       /\ posts[n].url = Str(UPLOADS_ \o name)
       /\ name \notin DOMAIN files

============================================================================
